---- MODULE Spec2Model ----
(***************************************************************************)
(* Snapshot-and-diff engine of app.py: create_snapshot, load_snapshot,     *)
(* compare_snapshots and the /diff handler, over one SQLite table          *)
(* snapshots(id, filepath, hash) with PRIMARY KEY (id, filepath).          *)
(*                                                                         *)
(* Every request opens its own connection (get_db_connection).  Python's   *)
(* sqlite3 opens a transaction implicitly before a DELETE or INSERT; the   *)
(* first write of a transaction takes the database's single write lock,    *)
(* which is held until commit or rollback.  A SELECT reads the committed   *)
(* table.  Requests of a threaded server interleave between statements.    *)
(***************************************************************************)
EXTENDS Integers, Sequences, FiniteSets, TLC

\* ---------------------------------------------------------------- bounds
\* Number of /snapshot requests served in one behaviour.
MaxBuilds == 2
\* Number of read requests (load or /diff) served in one behaviour.
MaxReads == 1

\* ------------------------------------------------------------ the inputs
Builders == {"b1", "b2"}
Ids == {"a", "b"}
NoWriter == "none"

\* File contents, and SHA-256 of each as hexdigest() prints it (shortened):
\* equal contents give equal digests, different contents different ones.
Contents == {"hi", "yo"}
Unreadable == "EACCES"
hexdigest(content) ==
    CASE content = "hi" -> "8f434346"
      [] content = "yo" -> "d0c4a1e5"

\* The directory trees on disk: the files os.walk yields for each directory,
\* in walk order, as <<path components below the directory, content>>.
\* "nodir" is a path that is not a directory: os.walk yields nothing for it.
Directories == {"empty", "t1", "t2", "t3"}
RequestPaths == Directories \cup {"nodir"}
walk(dir) ==
    CASE dir = "empty" -> << >>
      [] dir = "nodir" -> << >>
      [] dir = "t1" -> << <<<<"x.txt">>, "hi">>, <<<<"d", "y.txt">>, "hi">> >>
      [] dir = "t2" -> << <<<<"x.txt">>, "yo">>, <<<<"d", "z.txt">>, "hi">> >>
      [] dir = "t3" -> << <<<<"d", "y.txt">>, "hi">>, <<<<"w.txt">>, Unreadable>> >>

\* Every relative path of the trees, in the order of the table's primary-key
\* index (the order a SELECT ... WHERE id = ? returns rows in).
PathOrder == << <<"d", "y.txt">>, <<"d", "z.txt">>, <<"w.txt">>, <<"x.txt">> >>

VARIABLES
    db,             \* the committed rows of table snapshots
    lock,           \* the builder whose connection holds the write lock
    pending,        \* the lock holder's uncommitted view of the table
    pc,             \* pc[p]: where builder p is in create_snapshot
    req,            \* req[p]: the (directory_path, snapshot_id) of its request
    file_contents,  \* file_contents[p]: the dict built by the walk
    file_count,     \* file_count[p]
    ret,            \* ret[p]: what create_snapshot returned or raised
    builds,         \* /snapshot requests served so far
    prior,          \* history: prior[p] = the rows the store held for the
                    \* request's id when create_snapshot was entered
    rpc,            \* where the reader is in load or handle_diff
    rargs,          \* the (id_a, id_b) of its request
    snap_a,         \* what load_snapshot returned: the load, or line 126
    snap_b,         \* what load_snapshot returned at line 127
    resp,           \* the response of the last /diff request
    reads           \* read requests served so far

bvars == <<pc, req, file_contents, file_count, ret, builds, prior>>
rvars == <<rpc, rargs, snap_a, snap_b, resp, reads>>
store == <<db, lock, pending>>
vars == <<db, lock, pending, pc, req, file_contents, file_count, ret, builds, prior,
          rpc, rargs, snap_a, snap_b, resp, reads>>

\* ------------------------------------------------------- pure functions
EmptyDict == << >>

\* os.path.abspath / os.path.join / os.path.relpath on component sequences.
abspath(directory_path) == <<"/", directory_path>>
join(root, file) == root \o file
relpath(file_path, start) == SubSeq(file_path, Len(start) + 1, Len(file_path))

\* Mutant: the check of line 69 is missing.
isdir_Unchecked(full_path) == TRUE
isdir(full_path) == full_path[2] \in Directories

\* calculate_file_hash: None (here "") when the file cannot be read.
None == ""
\* Mutant: the except branch returns the digest of the bytes read so far
\* (none: the SHA-256 of the empty string).
calculate_file_hash_Partial(content) ==
    IF content = Unreadable THEN "e3b0c442" ELSE hexdigest(content)
calculate_file_hash(content) ==
    IF content = Unreadable THEN None ELSE hexdigest(content)

\* The loop of create_snapshot over os.walk: <<file_contents, file_count>>
\* after the first n files of the walk.
RECURSIVE WalkLoop(_, _, _)
WalkLoop(full_path, files, n) ==
    IF n = 0 THEN <<EmptyDict, 0>>
    ELSE LET before == WalkLoop(full_path, files, n - 1)
             file_path == join(full_path, files[n][1])
             relative_path == relpath(file_path, full_path)
             file_hash == calculate_file_hash(files[n][2])
         IN  IF file_hash # None
             THEN << [p \in DOMAIN before[1] \cup {relative_path} |->
                        IF p = relative_path THEN file_hash ELSE before[1][p]],
                     before[2] + 1 >>
             ELSE before

\* The keys of a dict in iteration order.
keys(dict) == SelectSeq(PathOrder, LAMBDA p : p \in DOMAIN dict)

\* snapshot_data: the rows of the batch.
Row(id, filepath, hash) == [id |-> id, filepath |-> filepath, hash |-> hash]
snapshot_data(snapshot_id, dict) ==
    [i \in 1..Len(keys(dict)) |->
        Row(snapshot_id, keys(dict)[i], dict[keys(dict)[i]])]

\* ------------------------------------------------------------ the table
RowsOf(table, id) == {r \in table : r.id = id}
\* Mutant: the DELETE matches no row.
DeleteWhereId_NoRow(table, id) == table
\* Mutant: the DELETE has no WHERE clause.
DeleteWhereId_AllRows(table, id) == {}
DeleteWhereId(table, id) == table \ RowsOf(table, id)

\* Mutant: the table has no primary key.
Conflicts_NoKey(table, row) == FALSE

\* INSERT of one row: violates the primary key when the table already holds
\* a row with the same (id, filepath).
Conflicts(table, row) ==
    \E r \in table : r.id = row.id /\ r.filepath = row.filepath

\* executemany: the table after the first n rows, and the index of the first
\* row that raises IntegrityError (Len + 1 when none does).
RECURSIVE InsertedUpTo(_, _, _)
InsertedUpTo(table, rows, n) ==
    IF n = 0 THEN table ELSE InsertedUpTo(table, rows, n - 1) \cup {rows[n]}
FirstConflict(table, rows) ==
    LET bad == {i \in 1..Len(rows) : Conflicts(InsertedUpTo(table, rows, i - 1), rows[i])}
    IN  IF bad = {} THEN Len(rows) + 1
        ELSE CHOOSE i \in bad : \A j \in bad : i <= j

\* conn.rollback(): the committed table stands, whatever the transaction held.
rollback(committed, uncommitted) == committed
\* conn.commit(): the transaction's view becomes the committed table.
commit(committed, uncommitted) == uncommitted

\* ------------------------------------------------------- load_snapshot
\* What load_snapshot returns: None ("not found") or a dict.
NotFound == [none |-> TRUE, dict |-> EmptyDict]
Found(dict) == [none |-> FALSE, dict |-> dict]

\* Lines 112-119: the rows of the id as a dict, None when there are no rows.
load_snapshot(table, snapshot_id) ==
    LET rows == RowsOf(table, snapshot_id)
    IN  IF rows = {} THEN NotFound
        ELSE Found([p \in {r.filepath : r \in rows} |->
                      (CHOOSE r \in rows : r.filepath = p).hash])

\* -------------------------------------------------------- server_status
\* The order SELECT DISTINCT id returns the ids in.
IdOrder == <<"a", "b">>

\* Mutant: the DISTINCT is missing, an id is listed once for each of its rows.
distinct_ids_PerRow(table) ==
    LET rep(id) == [i \in 1..Cardinality(RowsOf(table, id)) |-> id]
    IN  rep(IdOrder[1]) \o rep(IdOrder[2])
\* Lines 215-216: SELECT DISTINCT id FROM snapshots, as a list.
distinct_ids(table) ==
    LET ids == {r.id : r \in table}
    IN  SelectSeq(IdOrder, LAMBDA id : id \in ids)

\* ---------------------------------------------------- compare_snapshots
append(list, x) == Append(list, x)

\* Mutant: the elif branch is missing, no path is ever reported modified.
RECURSIVE LoopB_NoModified(_, _, _)
LoopB_NoModified(a, b, n) ==
    IF n = 0 THEN << <<>>, <<>> >>
    ELSE LET before == LoopB_NoModified(a, b, n - 1)
             path_b == keys(b)[n]
         IN  IF path_b \notin DOMAIN a
             THEN <<append(before[1], path_b), before[2]>>
             ELSE before

\* Mutant: the elif is an if on a.get(path_b): a path that is not in snap_a is
\* appended to added and to modified.
RECURSIVE LoopB_IfNotElif(_, _, _)
LoopB_IfNotElif(a, b, n) ==
    IF n = 0 THEN << <<>>, <<>> >>
    ELSE LET before == LoopB_IfNotElif(a, b, n - 1)
             path_b == keys(b)[n]
             hash_b == b[path_b]
         IN  IF path_b \notin DOMAIN a
             THEN <<append(before[1], path_b), append(before[2], path_b)>>
             ELSE IF a[path_b] # hash_b
                  THEN <<before[1], append(before[2], path_b)>>
                  ELSE before

\* Mutant: the digests are compared with == where the code has !=.
RECURSIVE LoopB_EqualHash(_, _, _)
LoopB_EqualHash(a, b, n) ==
    IF n = 0 THEN << <<>>, <<>> >>
    ELSE LET before == LoopB_EqualHash(a, b, n - 1)
             path_b == keys(b)[n]
             hash_b == b[path_b]
         IN  IF path_b \notin DOMAIN a
             THEN <<append(before[1], path_b), before[2]>>
             ELSE IF a[path_b] = hash_b
                  THEN <<before[1], append(before[2], path_b)>>
                  ELSE before

\* Lines 137-141: <<added, modified>> after the first n items of snap_b.
RECURSIVE LoopB(_, _, _)
LoopB(a, b, n) ==
    IF n = 0 THEN << <<>>, <<>> >>
    ELSE LET before == LoopB(a, b, n - 1)
             path_b == keys(b)[n]
             hash_b == b[path_b]
         IN  IF path_b \notin DOMAIN a
             THEN <<append(before[1], path_b), before[2]>>
             ELSE IF a[path_b] # hash_b
                  THEN <<before[1], append(before[2], path_b)>>
                  ELSE before

\* Mutant: the test of the second loop is "in" where the code has "not in".
RECURSIVE LoopA_Inverted(_, _, _)
LoopA_Inverted(a, b, n) ==
    IF n = 0 THEN <<>>
    ELSE LET before == LoopA_Inverted(a, b, n - 1)
             path_a == keys(a)[n]
         IN  IF path_a \in DOMAIN b THEN append(before, path_a) ELSE before

\* Mutant: the second loop appends every path of snap_a.
RECURSIVE LoopA_All(_, _, _)
LoopA_All(a, b, n) ==
    IF n = 0 THEN <<>>
    ELSE append(LoopA_All(a, b, n - 1), keys(a)[n])

\* Lines 144-146: deleted after the first n keys of snap_a.
RECURSIVE LoopA(_, _, _)
LoopA(a, b, n) ==
    IF n = 0 THEN <<>>
    ELSE LET before == LoopA(a, b, n - 1)
             path_a == keys(a)[n]
         IN  IF path_a \notin DOMAIN b THEN append(before, path_a) ELSE before

\* Mutant: the summary counts deleted with len(added).
DiffResult_DeletedCount(a, b) ==
    LET added == LoopB(a, b, Len(keys(b)))[1]
        modified == LoopB(a, b, Len(keys(b)))[2]
        deleted == LoopA(a, b, Len(keys(a)))
    IN  [summary |-> [added |-> Len(added),
                      deleted |-> Len(added),
                      modified |-> Len(modified)],
         diff_details |-> [added |-> added,
                           deleted |-> deleted,
                           modified |-> modified]]

\* Lines 132-159: the dict compare_snapshots returns for two loaded dicts.
DiffResult(a, b) ==
    LET added == LoopB(a, b, Len(keys(b)))[1]
        modified == LoopB(a, b, Len(keys(b)))[2]
        deleted == LoopA(a, b, Len(keys(a)))
    IN  [summary |-> [added |-> Len(added),
                      deleted |-> Len(deleted),
                      modified |-> Len(modified)],
         diff_details |-> [added |-> added,
                           deleted |-> deleted,
                           modified |-> modified]]

\* Mutant: only snap_a is checked.
EitherMissing_OnlyA(a, b) == a.none
\* Line 129: the existence check of compare_snapshots.
EitherMissing(a, b) == a.none \/ b.none

\* ------------------------------------------------------------- responses
NoResp == [code |-> 0, body |-> [error |-> ""]]
\* Line 198.
NotInDatabase ==
    [code |-> 404,
     body |-> [error |-> "One or both snapshot IDs do not exist in the database. Please capture them first."]]
\* Lines 130 and 203-204.
ValueError ==
    [code |-> 404, body |-> [error |-> "One or both snapshot IDs not found."]]
\* Line 202.
Json200(diff_result) == [code |-> 200, body |-> diff_result]
\* Lines 217-221.
Status200(snapshots) ==
    [code |-> 200,
     body |-> [status |-> "Server running",
               info |-> "Snapshot & Diff Backend active with SQLite persistence.",
               snapshots_in_db |-> snapshots]]
NoArgs == [id_a |-> "a", id_b |-> "a"]

\* ---------------------------------------------------------------- results
Ok(n) == [status |-> "ok", file_count |-> n]
Raised(what) == [status |-> what, file_count |-> 0]
NoRet == [status |-> "none", file_count |-> 0]
NoReq == [path |-> "nodir", id |-> "a"]

Init ==
    /\ db = {}
    /\ lock = NoWriter
    /\ pending = {}
    /\ pc = [p \in Builders |-> "idle"]
    /\ req = [p \in Builders |-> NoReq]
    /\ file_contents = [p \in Builders |-> EmptyDict]
    /\ file_count = [p \in Builders |-> 0]
    /\ ret = [p \in Builders |-> NoRet]
    /\ builds = 0
    /\ prior = [p \in Builders |-> {}]
    /\ rpc = "idle"
    /\ rargs = NoArgs
    /\ snap_a = NotFound
    /\ snap_b = NotFound
    /\ resp = NoResp
    /\ reads = 0

\* ------------------------------------------------- create_snapshot, steps
\* Lines 65-81: the directory check and the walk.
Walk(p, directory_path, snapshot_id) ==
    /\ pc[p] \in {"idle", "done", "failed"}
    /\ builds < MaxBuilds
    /\ builds' = builds + 1
    /\ req' = [req EXCEPT ![p] = [path |-> directory_path, id |-> snapshot_id]]
    /\ prior' = [prior EXCEPT ![p] = RowsOf(db, snapshot_id)]
    /\ LET full_path == abspath(directory_path)
       IN  IF ~isdir(full_path)
           THEN /\ pc' = [pc EXCEPT ![p] = "failed"]
                /\ ret' = [ret EXCEPT ![p] = Raised("FileNotFoundError")]
                /\ file_contents' = [file_contents EXCEPT ![p] = EmptyDict]
                /\ file_count' = [file_count EXCEPT ![p] = 0]
           ELSE LET files == walk(directory_path)
                    walked == WalkLoop(full_path, files, Len(files))
                IN  /\ pc' = [pc EXCEPT ![p] = "walked"]
                    /\ ret' = [ret EXCEPT ![p] = NoRet]
                    /\ file_contents' = [file_contents EXCEPT ![p] = walked[1]]
                    /\ file_count' = [file_count EXCEPT ![p] = walked[2]]
    /\ UNCHANGED <<db, lock, pending>>
    /\ UNCHANGED rvars

\* Lines 99-103: the except and finally of create_snapshot for an exception
\* raised by a statement: rollback of what the connection's transaction
\* holds, close, raise.
Raise(p, uncommitted) ==
    /\ db' = rollback(db, uncommitted)
    /\ UNCHANGED <<lock, pending>>
    /\ pc' = [pc EXCEPT ![p] = "failed"]
    /\ ret' = [ret EXCEPT ![p] = Raised("DatabaseWriteError")]
    /\ UNCHANGED <<req, file_contents, file_count, builds, prior>>
    /\ UNCHANGED rvars

\* Line 86: DELETE FROM snapshots WHERE id = ?, in a transaction it opens.
DeleteExec(p) ==
    /\ pc[p] = "walked"
    /\ lock = NoWriter
    /\ lock' = p
    /\ pending' = DeleteWhereId(db, req[p].id)
    /\ pc' = [pc EXCEPT ![p] = "deleting"]
    /\ UNCHANGED <<db, req, file_contents, file_count, ret, builds, prior>>
    /\ UNCHANGED rvars

\* Line 86 when another connection holds the write lock past the busy
\* timeout: OperationalError("database is locked").
DeleteBusy(p) ==
    /\ pc[p] = "walked"
    /\ lock \notin {NoWriter, p}
    /\ Raise(p, db)

\* Line 87: commit of the DELETE.
DeleteCommit(p) ==
    /\ pc[p] = "deleting"
    /\ db' = commit(db, pending)
    /\ lock' = NoWriter
    /\ pending' = {}
    /\ pc' = [pc EXCEPT ![p] = "deleted"]
    /\ UNCHANGED <<req, file_contents, file_count, ret, builds, prior>>
    /\ UNCHANGED rvars

\* Lines 90-97: executemany of the INSERT batch, every row accepted.  An
\* empty batch runs no statement and takes no lock.
InsertExec(p) ==
    /\ pc[p] = "deleted"
    /\ LET rows == snapshot_data(req[p].id, file_contents[p])
       IN  IF Len(rows) = 0
           THEN UNCHANGED <<lock, pending>>
           ELSE /\ lock = NoWriter
                /\ FirstConflict(db, rows) > Len(rows)
                /\ lock' = p
                /\ pending' = InsertedUpTo(db, rows, Len(rows))
    /\ pc' = [pc EXCEPT ![p] = "inserting"]
    /\ UNCHANGED <<db, req, file_contents, file_count, ret, builds, prior>>
    /\ UNCHANGED rvars

\* Lines 94-101: a row of the batch violates the primary key (another build
\* of the same id committed that path after this build's DELETE).  The rows
\* before it are in the transaction when the exception is raised.
InsertConflict(p) ==
    /\ pc[p] = "deleted"
    /\ lock = NoWriter
    /\ LET rows == snapshot_data(req[p].id, file_contents[p])
           k == FirstConflict(db, rows)
       IN  /\ k <= Len(rows)
           /\ Raise(p, InsertedUpTo(db, rows, k - 1))

\* Lines 94-101: the storage fails while row k of the batch is written
\* (disk full, I/O error).
InsertFault(p) ==
    /\ pc[p] = "deleted"
    /\ lock = NoWriter
    /\ LET rows == snapshot_data(req[p].id, file_contents[p])
       IN  \E k \in 1..Len(rows) :
              /\ k < FirstConflict(db, rows)
              /\ Raise(p, InsertedUpTo(db, rows, k - 1))

\* Lines 94-101 when another connection holds the write lock past the busy
\* timeout.
InsertBusy(p) ==
    /\ pc[p] = "deleted"
    /\ file_contents[p] # EmptyDict
    /\ lock \notin {NoWriter, p}
    /\ Raise(p, db)

\* Lines 98-105: commit of the INSERT batch, close, return file_count.
InsertCommit(p) ==
    /\ pc[p] = "inserting"
    /\ IF lock = p
       THEN /\ db' = commit(db, pending)
            /\ lock' = NoWriter
            /\ pending' = {}
       ELSE UNCHANGED <<db, lock, pending>>
    /\ pc' = [pc EXCEPT ![p] = "done"]
    /\ ret' = [ret EXCEPT ![p] = Ok(file_count[p])]
    /\ UNCHANGED <<req, file_contents, file_count, builds, prior>>
    /\ UNCHANGED rvars

Build(p) ==
    \/ \E directory_path \in RequestPaths, snapshot_id \in Ids :
          Walk(p, directory_path, snapshot_id)
    \/ DeleteExec(p)
    \/ DeleteBusy(p)
    \/ DeleteCommit(p)
    \/ InsertExec(p)
    \/ InsertConflict(p)
    \/ InsertFault(p)
    \/ InsertBusy(p)
    \/ InsertCommit(p)

\* --------------------------------------------------------------- reads
Idle == rpc \in {"idle", "loaded", "listed", "done"}

\* Mutant: load_snapshot deletes the rows it has read.
Load_Clearing(snapshot_id) ==
    /\ Idle
    /\ reads < MaxReads
    /\ reads' = reads + 1
    /\ rargs' = [id_a |-> snapshot_id, id_b |-> snapshot_id]
    /\ snap_a' = load_snapshot(db, snapshot_id)
    /\ snap_b' = NotFound
    /\ resp' = NoResp
    /\ rpc' = "loaded"
    /\ db' = DeleteWhereId(db, snapshot_id)
    /\ UNCHANGED <<lock, pending, bvars>>

\* Load: one load_snapshot call.
Load(snapshot_id) ==
    /\ Idle
    /\ reads < MaxReads
    /\ reads' = reads + 1
    /\ rargs' = [id_a |-> snapshot_id, id_b |-> snapshot_id]
    /\ snap_a' = load_snapshot(db, snapshot_id)
    /\ snap_b' = NotFound
    /\ resp' = NoResp
    /\ rpc' = "loaded"
    /\ UNCHANGED <<store, bvars>>

\* handle_diff, line 197, left operand: load_snapshot(id_a) is None.
DiffCheckA(id_a, id_b) ==
    /\ Idle
    /\ reads < MaxReads
    /\ reads' = reads + 1
    /\ rargs' = [id_a |-> id_a, id_b |-> id_b]
    /\ snap_a' = NotFound
    /\ snap_b' = NotFound
    /\ IF load_snapshot(db, id_a).none
       THEN rpc' = "done" /\ resp' = NotInDatabase
       ELSE rpc' = "check_b" /\ resp' = NoResp
    /\ UNCHANGED <<store, bvars>>

\* handle_diff, line 197, right operand: load_snapshot(id_b) is None.
DiffCheckB ==
    /\ rpc = "check_b"
    /\ IF load_snapshot(db, rargs.id_b).none
       THEN rpc' = "done" /\ resp' = NotInDatabase
       ELSE rpc' = "compare" /\ resp' = NoResp
    /\ UNCHANGED <<store, bvars, rargs, snap_a, snap_b, reads>>

\* compare_snapshots, line 126.
CompareLoadA ==
    /\ rpc = "compare"
    /\ snap_a' = load_snapshot(db, rargs.id_a)
    /\ rpc' = "loaded_a"
    /\ UNCHANGED <<store, bvars, rargs, snap_b, resp, reads>>

\* compare_snapshots, lines 127-159, and lines 202-204 of handle_diff.
CompareLoadB ==
    /\ rpc = "loaded_a"
    /\ snap_b' = load_snapshot(db, rargs.id_b)
    /\ resp' = IF EitherMissing(snap_a, snap_b')
               THEN ValueError
               ELSE Json200(DiffResult(snap_a.dict, snap_b'.dict))
    /\ rpc' = "done"
    /\ UNCHANGED <<store, bvars, rargs, snap_a, reads>>

\* server_status, lines 210-223: the ids that have rows.
ServerStatus ==
    /\ Idle
    /\ reads < MaxReads
    /\ reads' = reads + 1
    /\ rargs' = NoArgs
    /\ snap_a' = NotFound
    /\ snap_b' = NotFound
    /\ resp' = Status200(distinct_ids(db))
    /\ rpc' = "listed"
    /\ UNCHANGED <<store, bvars>>

Read ==
    \/ \E snapshot_id \in Ids : Load(snapshot_id)
    \/ ServerStatus
    \/ \E id_a \in Ids, id_b \in Ids : DiffCheckA(id_a, id_b)
    \/ DiffCheckB
    \/ CompareLoadA
    \/ CompareLoadB

Next == (\E p \in Builders : Build(p)) \/ Read

Spec == Init /\ [][Next]_vars

\* ------------------------------------------ requests served one at a time
\* A request is taken up only when no other request is in flight.
AtRest == Idle /\ \A q \in Builders : pc[q] \in {"idle", "done", "failed"}

SeqWalk(p, directory_path, snapshot_id) ==
    AtRest /\ Walk(p, directory_path, snapshot_id)
SeqLoad(snapshot_id) == AtRest /\ Load(snapshot_id)
SeqDiffCheckA(id_a, id_b) == AtRest /\ DiffCheckA(id_a, id_b)
SeqServerStatus == AtRest /\ ServerStatus

SeqNext ==
    \/ \E p \in Builders :
          \/ \E directory_path \in RequestPaths, snapshot_id \in Ids :
                SeqWalk(p, directory_path, snapshot_id)
          \/ DeleteExec(p)
          \/ DeleteCommit(p)
          \/ InsertExec(p)
          \/ InsertFault(p)
          \/ InsertCommit(p)
    \/ \E snapshot_id \in Ids : SeqLoad(snapshot_id)
    \/ SeqServerStatus
    \/ \E id_a \in Ids, id_b \in Ids : SeqDiffCheckA(id_a, id_b)
    \/ DiffCheckB
    \/ CompareLoadA
    \/ CompareLoadB

SeqSpec == Init /\ [][SeqNext]_vars

\* ================================================================ claims
\* The files of a directory that can be read, and the mapping the
\* specification asks a build of it to store: relative path -> digest.
Readable(dir) == {i \in 1..Len(walk(dir)) : walk(dir)[i][2] \in Contents}
ExpectedMapping(dir) ==
    [path \in {walk(dir)[i][1] : i \in Readable(dir)} |->
        hexdigest(walk(dir)[CHOOSE i \in Readable(dir) : walk(dir)[i][1] = path][2])]
Rows(id, dict) == {Row(id, path, dict[path]) : path \in DOMAIN dict}
NewRows(p) == Rows(req[p].id, file_contents[p])
ToSet(list) == {list[i] : i \in 1..Len(list)}
Building(p) == pc[p] \in {"walked", "deleting", "deleted", "inserting"}
DiffDone == rpc = "done" /\ resp.code = 200

\* C1: a successful build(root, id) followed at once by load(id) returns a
\* mapping whose keys are exactly the relative paths of the files under root,
\* each mapped to the digest of its content, with as many entries as the
\* file count build returned.  (A file that cannot be read has no digest and
\* is left out of the mapping by the policy of section 4.4.)
C1_BuildThenLoad ==
    [][\A p \in Builders :
          InsertCommit(p) =>
             LET loaded == load_snapshot(db', req[p].id)
             IN  /\ ~loaded.none
                 /\ loaded.dict = ExpectedMapping(req[p].path)
                 /\ Cardinality(DOMAIN loaded.dict) = ret'[p].file_count]_vars

\* C2: a diff that returns a result has added = the paths of B not in A,
\* deleted = the paths of A not in B, modified = the paths of both whose
\* digests differ, A and B being the snapshots it loaded for id_a and id_b.
C2_DiffClassification ==
    DiffDone =>
       LET A == snap_a.dict
           B == snap_b.dict
           d == resp.body.diff_details
       IN  /\ ToSet(d.added) = {path \in DOMAIN B : path \notin DOMAIN A}
           /\ ToSet(d.deleted) = {path \in DOMAIN A : path \notin DOMAIN B}
           /\ ToSet(d.modified) =
                 {path \in DOMAIN A \cap DOMAIN B : A[path] # B[path]}

C2_Witness ==
    /\ DiffDone
    /\ rargs.id_a # rargs.id_b
    /\ snap_a.dict = ExpectedMapping("t1")
    /\ snap_b.dict = ExpectedMapping("t2")
    /\ resp.body.diff_details.added = << <<"d", "z.txt">> >>
    /\ resp.body.diff_details.deleted = << <<"d", "y.txt">> >>
    /\ resp.body.diff_details.modified = << <<"x.txt">> >>

\* C3: a build that fails with a storage error after it has begun writing
\* leaves the store's entries for its id exactly as they were when the build
\* started.
C3_FailedBuildRestores ==
    [][\A p \in Builders :
          (pc[p] \in {"deleting", "deleted", "inserting"} /\ pc'[p] = "failed")
             => RowsOf(db', req[p].id) = prior[p]]_vars

\* C4: a load that runs while one builder rebuilds its id (no other builder
\* has ever run) returns either the complete mapping from before the rebuild
\* or the complete new mapping.
C4_LoadSeesOldOrNew ==
    [][\A p \in Builders, id \in Ids :
          (/\ Load(id)
           /\ Building(p)
           /\ req[p].id = id
           /\ \A q \in Builders \ {p} : pc[q] = "idle")
             => snap_a' \in {load_snapshot(prior[p], id),
                             load_snapshot(NewRows(p), id)}]_vars

\* C5: once two concurrent builds of the same id have both returned, the
\* store's entries for the id are exactly the mapping of one of them.
C5_ConcurrentBuildsSerialize ==
    \A p \in Builders, q \in Builders :
       (/\ p # q
        /\ builds = 2
        /\ pc[p] = "done" /\ pc[q] = "done"
        /\ req[p].id = req[q].id)
          => RowsOf(db, req[p].id) \in {NewRows(p), NewRows(q)}

\* C6: a build of a directory with no files returns file count 0, and a load
\* of its id that follows returns an empty mapping, not "not found".
C6_EmptyBuildLoadsEmpty ==
    [][\A p \in Builders :
          (InsertCommit(p) /\ Len(walk(req[p].path)) = 0)
             => /\ ret'[p] = Ok(0)
                /\ load_snapshot(db', req[p].id) = Found(EmptyDict)]_vars

\* C7: a diff answers with the not-found error, and no diff result, whenever
\* a load of it finds id_a absent or finds id_b absent; the answer does not
\* depend on which of the two is absent, and a result is returned only when
\* both were found.
C7_DiffNotFound ==
    [][/\ \A id_a \in Ids, id_b \in Ids :
             (DiffCheckA(id_a, id_b) /\ load_snapshot(db, id_a).none)
                => (rpc' = "done" /\ resp' = NotInDatabase)
       /\ (DiffCheckB /\ load_snapshot(db, rargs.id_b).none)
             => (rpc' = "done" /\ resp' = NotInDatabase)
       /\ (CompareLoadB /\ (snap_a.none \/ load_snapshot(db, rargs.id_b).none))
             => (rpc' = "done" /\ resp' = ValueError)
       /\ (CompareLoadB /\ resp'.code = 200)
             => (~snap_a.none /\ ~snap_b'.none)
       /\ resp'.code \in {0, 404} => DOMAIN resp'.body = {"error"}]_vars

C7_Witness ==
    /\ rpc = "done"
    /\ resp = NotInDatabase
    /\ rargs.id_a # rargs.id_b
    /\ ~load_snapshot(db, rargs.id_a).none
    /\ load_snapshot(db, rargs.id_b).none

\* C8: with requests served one at a time, the DELETE of a build leaves no
\* entry of its id, and after a successful build the entries of the id are
\* exactly the newly collected mapping, one row per path; a rebuild of an
\* unchanged directory stores the entries it replaced.
C8_BuildSupersedes ==
    [][\A p \in Builders :
          /\ DeleteCommit(p) => RowsOf(db', req[p].id) = {}
          /\ InsertCommit(p) =>
                /\ RowsOf(db', req[p].id) = NewRows(p)
                /\ Cardinality(RowsOf(db', req[p].id)) =
                      Cardinality(DOMAIN file_contents[p])
                /\ (prior[p] = Rows(req[p].id, ExpectedMapping(req[p].path))
                      => RowsOf(db', req[p].id) = prior[p])]_vars

C8_Witness ==
    \E p \in Builders :
       /\ pc[p] = "done"
       /\ prior[p] = Rows(req[p].id, ExpectedMapping("t1"))
       /\ req[p].path = "t2"
       /\ RowsOf(db, req[p].id) = Rows(req[p].id, ExpectedMapping("t2"))

\* C9: in every diff result the three summary counts are the lengths of the
\* three detail lists.
C9_SummaryMatchesDetails ==
    DiffDone =>
       /\ resp.body.summary.added = Len(resp.body.diff_details.added)
       /\ resp.body.summary.deleted = Len(resp.body.diff_details.deleted)
       /\ resp.body.summary.modified = Len(resp.body.diff_details.modified)

C9_Witness ==
    /\ DiffDone
    /\ Len(resp.body.diff_details.added) = 2
    /\ Len(resp.body.diff_details.deleted) = 1
    /\ Len(resp.body.diff_details.modified) = 0
    /\ resp.body.summary = [added |-> 2, deleted |-> 1, modified |-> 0]

\* C10: a diff of two identical snapshots (the same mapping loaded for id_a
\* and id_b, the same id included) returns three empty lists and three zero
\* counts.
C10_IdenticalSnapshots ==
    (DiffDone /\ snap_a = snap_b) =>
       /\ resp.body.diff_details =
             [added |-> <<>>, deleted |-> <<>>, modified |-> <<>>]
       /\ resp.body.summary = [added |-> 0, deleted |-> 0, modified |-> 0]

C10_Witness ==
    /\ DiffDone
    /\ rargs.id_a # rargs.id_b
    /\ snap_a = snap_b
    /\ Cardinality(DOMAIN snap_a.dict) = 2
    /\ resp.body.summary = [added |-> 0, deleted |-> 0, modified |-> 0]

\* C11: with requests served one at a time, a file that cannot be hashed
\* does not abort the build: the walk of a directory always goes on to the
\* store, the committed entries are exactly the files that were hashed, and
\* the file count returned is their number.
C11_UnreadableSkipped ==
    [][\A p \in Builders :
          /\ \A dir \in Directories, id \in Ids :
                Walk(p, dir, id) =>
                   /\ pc'[p] = "walked"
                   /\ file_contents'[p] = ExpectedMapping(dir)
                   /\ file_count'[p] = Cardinality(Readable(dir))
          /\ InsertCommit(p) =>
                /\ RowsOf(db', req[p].id) =
                      Rows(req[p].id, ExpectedMapping(req[p].path))
                /\ ret'[p] = Ok(Cardinality(Readable(req[p].path)))
                /\ ret'[p].file_count = Cardinality(RowsOf(db', req[p].id))]_vars

C11_Witness ==
    \E p \in Builders :
       /\ pc[p] = "done"
       /\ req[p].path = "t3"
       /\ Cardinality(Readable("t3")) < Len(walk("t3"))
       /\ ret[p] = Ok(1)
       /\ RowsOf(db, req[p].id) = Rows(req[p].id, ExpectedMapping("t3"))

\* C12: a step that changes the entries of an id is a step of a build under
\* that id (the builder that moved has that id in its request), so a build,
\* successful or failing, leaves the entries of every other id as they were;
\* and when two builds under different ids have run, in any interleaving,
\* the entries of the id of a build that returned are exactly the mapping of
\* that build, whatever became of the other.
C12_OtherIdsUntouched ==
    [][/\ \A id \in Ids :
             RowsOf(db', id) # RowsOf(db, id) =>
                \E p \in Builders :
                   pc'[p] # pc[p] /\ req[p].id = id /\ req'[p].id = id
       /\ \A p \in Builders, q \in Builders :
             (/\ p # q
              /\ builds' = 2
              /\ pc'[p] = "done"
              /\ pc'[q] # "idle"
              /\ req'[p].id # req'[q].id)
                => RowsOf(db', req'[p].id) = Rows(req'[p].id, file_contents'[p])]_vars

C12_Witness ==
    \E p \in Builders, q \in Builders :
       /\ pc[p] = "done" /\ pc[q] = "failed"
       /\ ret[q].status = "DatabaseWriteError"
       /\ req[p].id # req[q].id
       /\ file_contents[q] # EmptyDict
       /\ RowsOf(db, req[p].id) = NewRows(p)
       /\ NewRows(p) # {}

\* C13: a build whose root is not a directory fails at once with the
\* not-found error, the store (the entries of every id) is unchanged by that
\* step, and the failed call takes no further step: the builder's next step
\* is a new request.
C13_BadRootNoWrite ==
    [][\A p \in Builders :
          /\ \A directory_path \in RequestPaths \ Directories, id \in Ids :
                Walk(p, directory_path, id) =>
                   /\ pc'[p] = "failed"
                   /\ ret'[p] = Raised("FileNotFoundError")
                   /\ db' = db /\ lock' = lock /\ pending' = pending
          /\ (ret[p].status = "FileNotFoundError" /\ Build(p)) =>
                \E directory_path \in RequestPaths, id \in Ids :
                   Walk(p, directory_path, id)]_vars

C13_Witness ==
    \E p \in Builders :
       /\ pc[p] = "failed"
       /\ ret[p] = Raised("FileNotFoundError")
       /\ req[p].path \notin Directories
       /\ prior[p] # {}
       /\ RowsOf(db, req[p].id) = prior[p]

\* C14: the list server_status returns holds, once each, exactly the ids
\* for which load_snapshot does not return "not found", in whatever state
\* the builds have left the store.
C14_ListedIffLoads ==
    [][ServerStatus =>
          LET listed == resp'.body.snapshots_in_db
          IN  /\ ToSet(listed) = {id \in Ids : ~load_snapshot(db', id).none}
              /\ Len(listed) = Cardinality(ToSet(listed))]_vars

C14_Witness ==
    /\ rpc = "listed"
    /\ resp.body.snapshots_in_db = <<"b">>
    /\ load_snapshot(db, "a").none
    /\ ~load_snapshot(db, "b").none
    /\ \E p \in Builders : pc[p] = "done" /\ req[p].id = "a"

\* C15: in every diff result no path is listed twice in a list, no path is
\* in two of the three lists, and a path that both snapshots hold with the
\* same digest is in none of them.
NoDuplicates(list) == Len(list) = Cardinality(ToSet(list))
C15_ListsDisjoint ==
    DiffDone =>
       LET A == snap_a.dict
           B == snap_b.dict
           added == ToSet(resp.body.diff_details.added)
           deleted == ToSet(resp.body.diff_details.deleted)
           modified == ToSet(resp.body.diff_details.modified)
       IN  /\ NoDuplicates(resp.body.diff_details.added)
           /\ NoDuplicates(resp.body.diff_details.deleted)
           /\ NoDuplicates(resp.body.diff_details.modified)
           /\ added \cap deleted = {}
           /\ added \cap modified = {}
           /\ deleted \cap modified = {}
           /\ \A path \in DOMAIN A \cap DOMAIN B :
                 A[path] = B[path] => path \notin added \cup deleted \cup modified

C15_Witness ==
    /\ DiffDone
    /\ snap_a.dict = ExpectedMapping("t1")
    /\ snap_b.dict = ExpectedMapping("t3")
    /\ snap_a.dict[<<"d", "y.txt">>] = snap_b.dict[<<"d", "y.txt">>]
    /\ resp.body.diff_details =
          [added |-> <<>>, deleted |-> << <<"x.txt">> >>, modified |-> <<>>]

\* C16: in every reachable state the committed table, and the table as the
\* connection that holds the write lock sees it, have at most one row for
\* each pair of snapshot id and path.
OneRowPerKey(table) ==
    \A r1 \in table, r2 \in table :
       (r1.id = r2.id /\ r1.filepath = r2.filepath) => r1 = r2
C16_OneEntryPerKey ==
    /\ OneRowPerKey(db)
    /\ lock # NoWriter => OneRowPerKey(pending)

C16_Witness ==
    \E p \in Builders, q \in Builders :
       /\ pc[p] = "done" /\ pc[q] = "failed"
       /\ ret[q] = Raised("DatabaseWriteError")
       /\ req[p].id = req[q].id
       /\ \E path \in DOMAIN file_contents[p] \cap DOMAIN file_contents[q] :
             file_contents[p][path] # file_contents[q][path]
       /\ RowsOf(db, req[p].id) = NewRows(p)
       /\ OneRowPerKey(db)

\* C17: a load, every step of a diff and the listing of the ids leave the
\* committed table, the write lock and the open transaction as they were (a
\* step that changes one of them is none of these), and a step that changes
\* the committed table is a step of a build.
C17_ReadsAreReadOnly ==
    [][store' # store =>
          /\ ~ \E snapshot_id \in Ids : Load(snapshot_id)
          /\ ~ \/ \E id_a \in Ids, id_b \in Ids : DiffCheckA(id_a, id_b)
               \/ DiffCheckB
               \/ CompareLoadA
               \/ CompareLoadB
          /\ ~ ServerStatus
          /\ db' # db => \E p \in Builders : Build(p)]_vars

C17_Witness ==
    /\ rpc = "loaded"
    /\ ~snap_a.none
    /\ db # {}
    /\ RowsOf(db, rargs.id_a) = Rows(rargs.id_a, snap_a.dict)
    /\ \A p \in Builders : ~Building(p)

\* C18: for the two mappings a diff has loaded, the diff with the arguments
\* swapped is the mirror image: its deleted paths are the added paths of the
\* result, its added paths are the deleted paths of the result, and the
\* modified paths are the same set.
Swapped == DiffResult(snap_b.dict, snap_a.dict).diff_details
C18_SwapMirrors ==
    DiffDone =>
       /\ ToSet(resp.body.diff_details.added) = ToSet(Swapped.deleted)
       /\ ToSet(resp.body.diff_details.deleted) = ToSet(Swapped.added)
       /\ ToSet(resp.body.diff_details.modified) = ToSet(Swapped.modified)

C18_Witness ==
    /\ DiffDone
    /\ snap_a.dict = ExpectedMapping("t2")
    /\ snap_b.dict = ExpectedMapping("t1")
    /\ resp.body.diff_details =
          [added |-> << <<"d", "y.txt">> >>,
           deleted |-> << <<"d", "z.txt">> >>,
           modified |-> << <<"x.txt">> >>]
    /\ Swapped =
          [added |-> << <<"d", "z.txt">> >>,
           deleted |-> << <<"d", "y.txt">> >>,
           modified |-> << <<"x.txt">> >>]

\* C19: a diff result accounts for the whole change of the path set: the
\* paths of snap_a without the deleted ones, together with the added ones,
\* are the paths of snap_b; no added path is a path of snap_a; every deleted
\* and every modified path is a path of snap_a.
C19_PathSetAccounted ==
    DiffDone =>
       LET pathsA == DOMAIN snap_a.dict
           pathsB == DOMAIN snap_b.dict
           added == ToSet(resp.body.diff_details.added)
           deleted == ToSet(resp.body.diff_details.deleted)
           modified == ToSet(resp.body.diff_details.modified)
       IN  /\ (pathsA \ deleted) \cup added = pathsB
           /\ added \cap pathsA = {}
           /\ deleted \subseteq pathsA
           /\ modified \subseteq pathsA

C19_Witness ==
    /\ DiffDone
    /\ DOMAIN snap_a.dict = {<<"x.txt">>, <<"d", "z.txt">>}
    /\ DOMAIN snap_b.dict = {<<"d", "y.txt">>}
    /\ ToSet(resp.body.diff_details.added) = {<<"d", "y.txt">>}
    /\ ToSet(resp.body.diff_details.deleted) = {<<"x.txt">>, <<"d", "z.txt">>}
    /\ resp.body.diff_details.modified = <<>>
====
